---- MODULE Spec2Model ----
(***************************************************************************)
(* A model of the PNG chunk codec of pngme-rs: the 4-byte chunk type       *)
(* (src/src/chunk_type.rs) and the chunk record with its serialization and *)
(* validating parse (src/src/chunk.rs).                                    *)
(*                                                                         *)
(* A byte is a number in 0..255.  A u32 is a pair <<hi, lo>> of its two    *)
(* 16-bit halves, because the model checker's integers are narrower than   *)
(* an unsigned 32-bit value.  A usize (a length of a Vec or slice) is a    *)
(* pair <<q, r>> standing for q * 65536 + r, with r < 65536 and q not      *)
(* limited to 16 bits.                                                     *)
(***************************************************************************)
EXTENDS Integers, Sequences, FiniteSets

\* ------------------------------------------------------------ bit helpers

\* a ^ b on two bytes, bit by bit (n bits left to do).
RECURSIVE XorBits(_, _, _)
XorBits(a, b, n) ==
    IF n = 0 THEN 0
    ELSE ((a + b) % 2) + 2 * XorBits(a \div 2, b \div 2, n - 1)

\* The byte-by-byte table of ^, computed once.
Xor8Table == [a \in 0..255 |-> [b \in 0..255 |-> XorBits(a, b, 8)]]

Xor8(a, b) == Xor8Table[a][b]

\* a ^ b on two 16-bit halves.
Xor16(a, b) == Xor8(a \div 256, b \div 256) * 256 + Xor8(a % 256, b % 256)

\* a ^ b on two u32.
Xor32(a, b) == <<Xor16(a[1], b[1]), Xor16(a[2], b[2])>>

\* a & b on two bytes, bit by bit (n bits left to do).
RECURSIVE AndBits(_, _, _)
AndBits(a, b, n) ==
    IF n = 0 THEN 0
    ELSE ((a % 2) * (b % 2)) + 2 * AndBits(a \div 2, b \div 2, n - 1)

\* a >> 1 on a u32.
Shr1(c) == <<c[1] \div 2, (c[1] % 2) * 32768 + c[2] \div 2>>

\* a >> 8 on a u32.
Shr8(c) == <<c[1] \div 256, (c[1] % 256) * 256 + c[2] \div 256>>

\* ------------------------------------------------- u32 and usize helpers

\* usize -> the number of elements of a sequence.
USizeOf(n) == <<n \div 65536, n % 65536>>

\* `x as u32` on a usize: the low 32 bits.
AsU32(sz) == <<sz[1] % 65536, sz[2]>>

\* u32::to_be_bytes
to_be_bytes(x) == <<x[1] \div 256, x[1] % 256, x[2] \div 256, x[2] % 256>>

\* u32::from_be_bytes
from_be_bytes(b) == <<b[1] * 256 + b[2], b[3] * 256 + b[4]>>

\* u32::from_le_bytes
from_le_bytes(b) == <<b[4] * 256 + b[3], b[2] * 256 + b[1]>>

\* value[lo..hi] of a slice, with Rust's 0-based half-open bounds.
Slice(value, lo, hi) == [i \in 1..(hi - lo) |-> value[lo + i]]

\* ------------------------------------------------------------------ CRC

\* The reflected polynomial of CRC_32_ISO_HDLC, 0xEDB88320.
CrcPoly == <<60856, 33568>>

\* One bit of the reflected CRC: shift right, xor the polynomial if a 1 fell out.
CrcBit(c) == IF c[2] % 2 = 1 THEN Xor32(Shr1(c), CrcPoly) ELSE Shr1(c)

\* The table entry of byte b: eight CrcBit steps.
CrcEntry(b) ==
    CrcBit(CrcBit(CrcBit(CrcBit(CrcBit(CrcBit(CrcBit(CrcBit(<<0, b>>))))))))

CrcTable == [b \in 0..255 |-> CrcEntry(b)]

\* One byte of input.
CrcByte(c, b) == Xor32(CrcTable[Xor8(c[2] % 256, b)], Shr8(c))

\* The register after d[lo..hi] (1-based, inclusive).  The range is halved
\* so that the depth of the evaluation stays logarithmic; the first test
\* reads the register (never negative), so that it is computed before the
\* second half of the range is entered.
RECURSIVE CrcRange(_, _, _, _)
CrcRange(c, d, lo, hi) ==
    IF c[1] < 0 \/ lo > hi THEN c
    ELSE IF lo = hi THEN CrcByte(c, d[lo])
    ELSE LET mid == (lo + hi) \div 2
         IN  CrcRange(CrcRange(c, d, lo, mid), d, mid + 1, hi)

\* Crc::<u32>::new(&CRC_32_ISO_HDLC).checksum(d): init and xorout 0xFFFFFFFF.
checksum(d) == Xor32(CrcRange(<<65535, 65535>>, d, 1, Len(d)), <<65535, 65535>>)

\* ------------------------------------------------------------- results

\* Result<T>: Ok(v), Err(msg), or a panic that unwinds out of the call.
Ok(v) == [kind |-> "ok", val |-> v, msg |-> ""]

Err(m) == [kind |-> "err", val |-> <<>>, msg |-> m]

Panic(m) == [kind |-> "panic", val |-> <<>>, msg |-> m]

\* No call made yet.
NoResult == [kind |-> "none", val |-> <<>>, msg |-> ""]

\* ----------------------------------------------------------- ChunkType

ASCI_UPPER == 32

\* struct ChunkType([u8; 4])
ChunkType(v) == [f0 |-> v]

bytes(t) == t.f0

\* is_valid_byte with the two ranges merged into one, 'A'..'z'.
is_valid_byte_one_range(byte) == byte >= 65 /\ byte <= 122

is_valid_byte(byte) ==
    (byte >= 65 /\ byte <= 90) \/ (byte >= 97 /\ byte <= 122)

bytes_are_alphanumeric(t) ==
    \A i \in 1..4 : is_valid_byte(bytes(t)[i])

is_critical(t) == AndBits(bytes(t)[1], ASCI_UPPER, 8) = 0

is_public(t) == AndBits(bytes(t)[2], ASCI_UPPER, 8) = 0

is_reserved_bit_valid(t) == AndBits(bytes(t)[3], ASCI_UPPER, 8) = 0

\* is_safe_to_copy with the test of the other three flags.
is_safe_to_copy_inverted(t) == AndBits(bytes(t)[4], ASCI_UPPER, 8) = 0

is_safe_to_copy(t) == AndBits(bytes(t)[4], ASCI_UPPER, 8) # 0

is_valid(t) == bytes_are_alphanumeric(t) /\ is_reserved_bit_valid(t)

\* impl TryFrom<[u8; 4]> for ChunkType
ChunkType_try_from(value) == Ok(ChunkType(value))

\* impl FromStr for ChunkType; s is the text's bytes.  b.try_into() fails
\* unless the slice has exactly 4 bytes, and `?` returns that error.
from_str(s) ==
    IF Len(s) # 4 THEN Err("could not convert slice to array")
    ELSE LET chunk == ChunkType(s)
         IN  IF bytes_are_alphanumeric(chunk) THEN Ok(chunk)
             ELSE Err("Invalid type chunk code supplied")

\* ---------------------------------------------------------------- Chunk

\* struct Chunk { chunk_type, data }
Chunk_new(chunk_type, data) == [chunk_type |-> chunk_type, data |-> data]

length(c) == AsU32(USizeOf(Len(c.data)))

compute_crc(chunk_type, data) == checksum(bytes(chunk_type) \o data)

crc(c) == compute_crc(c.chunk_type, c.data)

\* as_bytes with the data chained before the type code.
as_bytes_data_first(c) ==
    to_be_bytes(length(c)) \o c.data \o bytes(c.chunk_type)
        \o to_be_bytes(crc(c))

\* as_bytes with the length written by to_le_bytes.
as_bytes_le_length(c) ==
    LET b == to_be_bytes(length(c))
    IN  <<b[4], b[3], b[2], b[1]>> \o bytes(c.chunk_type) \o c.data
            \o to_be_bytes(crc(c))

\* as_bytes with the checksum written by to_le_bytes.
as_bytes_le_crc(c) ==
    LET b == to_be_bytes(crc(c))
    IN  to_be_bytes(length(c)) \o bytes(c.chunk_type) \o c.data
            \o <<b[4], b[3], b[2], b[1]>>

as_bytes(c) ==
    to_be_bytes(length(c)) \o bytes(c.chunk_type) \o c.data
        \o to_be_bytes(crc(c))

\* Validate without the checksum test.
Validate_no_crc_check(chunk_type, data, be_len, le_len, be_crc, le_crc) ==
    LET len == AsU32(USizeOf(Len(data)))
    IN  IF ~(len = be_len \/ len = le_len)
        THEN Err("Data does not have the specified length")
        ELSE Ok(Chunk_new(chunk_type, data))

\* Validate with the length compared with its big-endian reading only.
Validate_be_len_only(chunk_type, data, be_len, le_len, be_crc, le_crc) ==
    LET len == AsU32(USizeOf(Len(data)))
    IN  IF ~(len = be_len)
        THEN Err("Data does not have the specified length")
        ELSE LET c == compute_crc(chunk_type, data)
             IN  IF ~(c = be_crc \/ c = le_crc)
                 THEN Err("Data does not match provided crc")
                 ELSE Ok(Chunk_new(chunk_type, data))

\* Validate with the checksum tested before the length.
Validate_crc_first(chunk_type, data, be_len, le_len, be_crc, le_crc) ==
    LET len == AsU32(USizeOf(Len(data)))
        c == compute_crc(chunk_type, data)
    IN  IF ~(c = be_crc \/ c = le_crc)
        THEN Err("Data does not match provided crc")
        ELSE IF ~(len = be_len \/ len = le_len)
        THEN Err("Data does not have the specified length")
        ELSE Ok(Chunk_new(chunk_type, data))

\* The checks of try_from once the slices are taken.
Validate(chunk_type, data, be_len, le_len, be_crc, le_crc) ==
    LET len == AsU32(USizeOf(Len(data)))
    IN  IF ~(len = be_len \/ len = le_len)
        THEN Err("Data does not have the specified length")
        ELSE LET c == compute_crc(chunk_type, data)
             IN  IF ~(c = be_crc \/ c = le_crc)
                 THEN Err("Data does not match provided crc")
                 ELSE Ok(Chunk_new(chunk_type, data))

\* impl TryFrom<&[u8]> for Chunk.  A slice whose range ends beyond the
\* buffer, or starts after it ends, panics.
Chunk_try_from(value) ==
    IF 4 > Len(value) THEN Panic("range end index 4 out of range")
    ELSE IF 8 > Len(value) THEN Panic("range end index 8 out of range")
    ELSE LET b_len == Slice(value, 0, 4)
             b_type == Slice(value, 4, 8)
             t == ChunkType_try_from(b_type)
             offset == Len(value) - 4
         IN  IF t.kind # "ok" THEN t
             ELSE IF 8 > offset THEN Panic("slice index starts at 8 but ends before")
             ELSE Validate(t.val, Slice(value, 8, offset),
                           from_be_bytes(b_len), from_le_bytes(b_len),
                           from_be_bytes(Slice(value, offset, Len(value))),
                           from_le_bytes(Slice(value, offset, Len(value))))

\* --------------------------------------------------------------- inputs

\* The largest payload drawn byte by byte.
MaxLen == 2

\* The longest text handed to from_str that is drawn byte by byte.
MaxTextLen == 5

\* The longest raw buffer handed to the parser.
MaxRaw == 13

\* The smallest payload sizes whose 4-byte length field reads as another
\* size in the other byte order: 00 00 01 00 is 256 big-endian and 65536
\* little-endian.
MidLen == 16 * 16
LongLen == 256 * 256

DataBytes == {0, 255}

RawBytes == {0, 1}

\* 'R' 'u' 'S' 't' '1'
NameBytes == {82, 117, 83, 116, 49}

\* The bytes on both sides of 'A', 'Z', 'a', 'z', and a digit.
EdgeBytes == {49, 64, 65, 90, 91, 96, 97, 122, 123}

\* Bytes of a raw array: those, and bytes that are no text at all.
ArrayBytes == EdgeBytes \cup {0, 32, 255}

SeqsUpTo(S, n) == UNION {[1..k -> S] : k \in 0..n}

\* The payloads a record of type code t is built with: every short one,
\* and for "RuSt" one of MidLen bytes.
Payloads(t) ==
    SeqsUpTo(DataBytes, MaxLen)
        \cup {[i \in 1..n |-> 0] :
                n \in {m \in {MidLen} : bytes(t) = <<82, 117, 83, 116>>}}

\* Texts for from_str: every short text over the name's bytes, and every
\* 4-byte text over the edge bytes.
Texts == SeqsUpTo(NameBytes, MaxTextLen) \cup [1..4 -> EdgeBytes]

Arrays == [1..4 -> ArrayBytes]

\* The type codes that records are built with: "RuSt", "aZAz", "Ru1t" (no
\* type code as a text), and an array with no letter in it.
RecordTexts == {<<82, 117, 83, 116>>, <<97, 90, 65, 122>>, <<82, 117, 49, 116>>}

RecordArrays == {<<0, 255, 49, 64>>}

RawBuffers == SeqsUpTo(RawBytes, MaxRaw)

\* The payload sizes buffer b is cut or padded to in flight: the small
\* ones, and LongLen where its length field reads LongLen in the other
\* byte order.
ResizeLens(b) ==
    (0..(MaxLen + 1)) \cup {MidLen}
        \cup {n \in {LongLen} : <<b[4], b[3], b[2], b[1]>> = <<0, 1, 0, 0>>}

\* The payload sizes of SizeSpec, as usize pairs: around 2^16 and 2^32.
SizeQs == {0, 1, 255, 256, 65535, 65536, 65537, 131072}

SizeRs == (0..12) \cup {255, 256, 65535}

\* ---------------------------------------------------------------- state

VARIABLES
    pc,      \* where the run is: start, typed, built, sent, parsed, done, sized
    src,     \* how ct was obtained: none, str, array, parsed
    inp,     \* the input of the call that made ct
    ct,      \* the Result of the type-code construction
    chunk,   \* the producer's Chunk
    buffer,  \* the byte buffer in flight
    via,     \* how buffer came about: empty, as_bytes, crc, resize, swap, raw
    res,     \* the Result of Chunk::try_from(buffer)
    out,     \* as_bytes of the parsed Chunk
    dlen,    \* SizeSpec: data.len() of a Chunk, a usize
    len32    \* SizeSpec: what length() returned for it, a u32

vars == <<pc, src, inp, ct, chunk, buffer, via, res, out, dlen, len32>>

NoChunk == Chunk_new(ChunkType(<<0, 0, 0, 0>>), <<>>)

LengthError == Err("Data does not have the specified length")

CrcError == Err("Data does not match provided crc")

Init ==
    /\ pc = "start"
    /\ src = "none"
    /\ inp = <<>>
    /\ ct = NoResult
    /\ chunk = NoChunk
    /\ buffer = <<>>
    /\ via = "empty"
    /\ res = NoResult
    /\ out = <<>>
    /\ dlen = <<0, 0>>
    /\ len32 = <<0, 0>>

\* -------------------------------------------------------------- actions

\* ChunkType::from_str(s)
FromStr(s) ==
    /\ pc = "start"
    /\ pc' = "typed"
    /\ src' = "str"
    /\ inp' = s
    /\ ct' = from_str(s)
    /\ UNCHANGED <<chunk, buffer, via, res, out, dlen, len32>>

\* ChunkType::try_from(v)
TryFromArray(v) ==
    /\ pc = "start"
    /\ pc' = "typed"
    /\ src' = "array"
    /\ inp' = v
    /\ ct' = ChunkType_try_from(v)
    /\ UNCHANGED <<chunk, buffer, via, res, out, dlen, len32>>

\* Chunk::try_from(b).map(|c| c.chunk_type): the type code of a parsed Chunk.
ParsedType(b) ==
    /\ pc = "start"
    /\ LET r == Chunk_try_from(b)
       IN  /\ r.kind = "ok"
           /\ ct' = Ok(r.val.chunk_type)
    /\ pc' = "typed"
    /\ src' = "parsed"
    /\ inp' = b
    /\ UNCHANGED <<chunk, buffer, via, res, out, dlen, len32>>

\* Chunk::new(ct, p), with the type code just made.
New(p) ==
    /\ pc = "typed"
    /\ ct.kind = "ok"
    /\ pc' = "built"
    /\ chunk' = Chunk_new(ct.val, p)
    /\ UNCHANGED <<src, inp, ct, buffer, via, res, out, dlen, len32>>

\* chunk.as_bytes()
AsBytes ==
    /\ pc = "built"
    /\ pc' = "sent"
    /\ buffer' = as_bytes(chunk)
    /\ via' = "as_bytes"
    /\ UNCHANGED <<src, inp, ct, chunk, res, out, dlen, len32>>

\* A buffer that no serialization made reaches the parser.
Receive(b) ==
    /\ pc = "start"
    /\ pc' = "sent"
    /\ buffer' = b
    /\ via' = "raw"
    /\ UNCHANGED <<src, inp, ct, chunk, res, out, dlen, len32>>

\* In flight, the i-th of the 4 trailing checksum bytes becomes v.
FlipCrcByte(i, v) ==
    /\ pc = "sent"
    /\ via = "as_bytes"
    /\ v # buffer[Len(buffer) - 4 + i]
    /\ buffer' = [buffer EXCEPT ![Len(buffer) - 4 + i] = v]
    /\ via' = "crc"
    /\ UNCHANGED <<pc, src, inp, ct, chunk, res, out, dlen, len32>>

\* In flight, the payload is cut or padded (with 0) to n bytes; the length
\* field, the type and the checksum field stay.
ResizePayload(n) ==
    /\ pc = "sent"
    /\ via = "as_bytes"
    /\ LET old == Len(buffer) - 12
       IN  /\ n # old
           /\ buffer' =
                 [i \in 1..(n + 12) |->
                    IF i <= 8 THEN buffer[i]
                    ELSE IF i > n + 8 THEN buffer[Len(buffer) - (n + 12 - i)]
                    ELSE IF i <= old + 8 THEN buffer[i]
                    ELSE 0]
    /\ via' = "resize"
    /\ UNCHANGED <<pc, src, inp, ct, chunk, res, out, dlen, len32>>

\* In flight, the length field, the checksum field or both are rewritten in
\* the other byte order (what a little-endian producer would have written).
SwapEndian(fields) ==
    /\ pc = "sent"
    /\ via = "as_bytes"
    /\ buffer' =
          [i \in 1..Len(buffer) |->
             IF i <= 4 /\ "len" \in fields THEN buffer[5 - i]
             ELSE IF i > Len(buffer) - 4 /\ "crc" \in fields
                  THEN buffer[2 * Len(buffer) - 3 - i]
             ELSE buffer[i]]
    /\ via' = "swap"
    /\ UNCHANGED <<pc, src, inp, ct, chunk, res, out, dlen, len32>>

\* Chunk::try_from(buffer)
Parse ==
    /\ pc = "sent"
    /\ pc' = "parsed"
    /\ res' = Chunk_try_from(buffer)
    /\ UNCHANGED <<src, inp, ct, chunk, buffer, via, out, dlen, len32>>

\* as_bytes of the Chunk that try_from returned.
Reserialize ==
    /\ pc = "parsed"
    /\ res.kind = "ok"
    /\ pc' = "done"
    /\ out' = as_bytes(res.val)
    /\ UNCHANGED <<src, inp, ct, chunk, buffer, via, res, dlen, len32>>

\* length() of a Chunk whose data holds sz bytes: self.data.len() as u32.
LengthOfSize(sz) ==
    /\ pc = "start"
    /\ pc' = "sized"
    /\ dlen' = sz
    /\ len32' = AsU32(sz)
    /\ UNCHANGED <<src, inp, ct, chunk, buffer, via, res, out>>

\* -------------------------------------------------------- specifications

\* Records: build, serialize, tamper, parse, serialize again.  Each
\* action's guard on pc is repeated before its inputs are drawn.
Next ==
    \/ pc = "start" /\ \E s \in RecordTexts : FromStr(s)
    \/ pc = "start" /\ \E v \in RecordArrays : TryFromArray(v)
    \/ pc = "typed" /\ ct.kind = "ok" /\ \E p \in Payloads(ct.val) : New(p)
    \/ AsBytes
    \/ pc = "start" /\ \E b \in RawBuffers : Receive(b)
    \/ pc = "sent" /\ \E i \in 1..4, v \in 0..255 : FlipCrcByte(i, v)
    \/ pc = "sent" /\ via = "as_bytes"
          /\ \E n \in ResizeLens(buffer) : ResizePayload(n)
    \/ pc = "sent"
          /\ \E f \in {{"len"}, {"crc"}, {"len", "crc"}} : SwapEndian(f)
    \/ Parse
    \/ Reserialize

Spec == Init /\ [][Next]_vars

\* Type codes: from a text, from an array, from a parsed Chunk.
TypeNext ==
    \/ pc = "start" /\ \E s \in Texts : FromStr(s)
    \/ pc = "start" /\ \E v \in Arrays : TryFromArray(v)
    \/ pc = "start" /\ \E v \in Arrays :
          ParsedType(as_bytes(Chunk_new(ChunkType(v), <<>>)))

TypeSpec == Init /\ [][TypeNext]_vars

\* Payload sizes beyond what a sequence of the model can hold.
SizeNext == \E q \in SizeQs, r \in SizeRs : LengthOfSize(<<q, r>>)

SizeSpec == Init /\ [][SizeNext]_vars

\* --------------------------------------------------------------- claims

Upper(b) == b \in 65..90

Lower(b) == b \in 97..122

Letter(b) == Upper(b) \/ Lower(b)

\* The payload size of a buffer of at least 12 bytes, as a u32.
PayloadLen32(b) == <<((Len(b) - 12) \div 65536) % 65536, (Len(b) - 12) % 65536>>

\* The two readings of the 4 bytes of b that start after position k.
ReadBE(b, k) == <<b[k + 1] * 256 + b[k + 2], b[k + 3] * 256 + b[k + 4]>>

ReadLE(b, k) == <<b[k + 4] * 256 + b[k + 3], b[k + 2] * 256 + b[k + 1]>>

\* C1: a record built with a type code of four ASCII letters and any
\* payload, serialized and parsed, comes back: the parse succeeds, and the
\* parsed record has the type bytes and the payload of the original.
RoundTrip ==
    (/\ pc = "parsed"
     /\ via = "as_bytes"
     /\ \A i \in 1..4 : Letter(bytes(chunk.chunk_type)[i]))
    => /\ res.kind = "ok"
       /\ bytes(res.val.chunk_type) = bytes(chunk.chunk_type)
       /\ res.val.data = chunk.data

\* A record with a non-empty payload has made the round trip.
RoundTripWitness ==
    /\ pc = "parsed"
    /\ via = "as_bytes"
    /\ \A i \in 1..4 : Letter(bytes(chunk.chunk_type)[i])
    /\ Len(chunk.data) >= 2
    /\ res.kind = "ok"

\* C2: the parse never aborts: whatever the buffer, it returns a record or
\* an error, and a buffer of fewer than 12 bytes gets an error.
ParseNeverPanics ==
    pc = "parsed"
    => /\ res.kind \in {"ok", "err"}
       /\ (Len(buffer) < 12 => res.kind = "err")

\* C3: the serialization of a record is the big-endian length, the 4 type
\* bytes, the payload in order, and the big-endian checksum; its size is
\* the length plus 12.
SerializationLayout ==
    (pc = "sent" /\ via = "as_bytes")
    => LET n == Len(chunk.data)
       IN  /\ Len(buffer) = length(chunk)[1] * 65536 + length(chunk)[2] + 12
           /\ Len(buffer) = n + 12
           /\ ReadBE(buffer, 0) = length(chunk)
           /\ \A i \in 1..4 : buffer[4 + i] = bytes(chunk.chunk_type)[i]
           /\ \A i \in 1..n : buffer[8 + i] = chunk.data[i]
           /\ ReadBE(buffer, n + 8) = crc(chunk)

\* A record with a non-empty payload has been serialized.
SerializationWitness ==
    /\ pc = "sent"
    /\ via = "as_bytes"
    /\ Len(chunk.data) >= 2
    /\ Len(buffer) = Len(chunk.data) + 12

\* C4: a serialized record with one of its 4 checksum bytes changed is
\* rejected with the checksum error.
ChecksumTamperRejected ==
    (pc = "parsed" /\ via = "crc") => res = CrcError

\* A buffer whose checksum field had one byte replaced by the byte at the
\* mirrored place of the field (what the other byte order would hold
\* there) has been parsed and rejected.
ChecksumTamperWitness ==
    /\ pc = "parsed"
    /\ via = "crc"
    /\ res = CrcError
    /\ LET n == Len(buffer)
           good == to_be_bytes(crc(chunk))
       IN  \E i \in 1..4 : /\ buffer[n - 4 + i] # good[i]
                           /\ buffer[n - 4 + i] = good[5 - i]

\* C5 as stated: a serialized record whose payload was cut or padded, the
\* length field unchanged, is rejected with the length error.
LengthTamperRejected ==
    (pc = "parsed" /\ via = "resize" /\ Len(buffer) >= 12)
    => res = LengthError

\* C5 amended: such a buffer is rejected with the length error exactly when
\* its payload size (as a u32) is neither reading of the length field; when
\* the size is the field's little-endian reading, the length test passes.
LengthTamperOutcome ==
    (pc = "parsed" /\ via = "resize" /\ Len(buffer) >= 12)
    => (res = LengthError
          <=> PayloadLen32(buffer)
                  \notin {ReadBE(buffer, 0), ReadLE(buffer, 0)})

\* A padded buffer has been parsed and rejected with the length error.
LengthTamperWitness ==
    /\ pc = "parsed"
    /\ via = "resize"
    /\ Len(buffer) > Len(chunk.data) + 12
    /\ res = LengthError

\* C6: from_str succeeds exactly on the texts of 4 bytes that are all ASCII
\* letters, and returns an error (no panic) on all others; the type code it
\* makes has the text's bytes.
FromStrAccepts ==
    (pc = "typed" /\ src = "str")
    => /\ ct.kind = "ok" <=> (Len(inp) = 4 /\ \A i \in 1..4 : Letter(inp[i]))
       /\ ct.kind \in {"ok", "err"}
       /\ ct.kind = "ok" => bytes(ct.val) = inp

\* from_str has accepted a text whose third byte is lowercase.
FromStrWitness ==
    /\ pc = "typed"
    /\ src = "str"
    /\ ct.kind = "ok"
    /\ Lower(inp[3])

\* C7 as stated: whichever way a type code was obtained, each flag tells
\* the case of its byte: critical, public, reserved-bit-valid exactly for
\* an uppercase letter, safe-to-copy exactly for a lowercase letter.
FlagsTellCase ==
    (pc = "typed" /\ ct.kind = "ok")
    => LET b == bytes(ct.val)
       IN  /\ is_critical(ct.val) <=> Upper(b[1])
           /\ is_public(ct.val) <=> Upper(b[2])
           /\ is_reserved_bit_valid(ct.val) <=> Upper(b[3])
           /\ is_safe_to_copy(ct.val) <=> Lower(b[4])

\* C7 amended: each flag tells the case of its byte where that byte is an
\* ASCII letter.
FlagsTellCaseOfLetters ==
    (pc = "typed" /\ ct.kind = "ok")
    => LET b == bytes(ct.val)
       IN  /\ Letter(b[1]) => (is_critical(ct.val) <=> Upper(b[1]))
           /\ Letter(b[2]) => (is_public(ct.val) <=> Upper(b[2]))
           /\ Letter(b[3]) => (is_reserved_bit_valid(ct.val) <=> Upper(b[3]))
           /\ Letter(b[4]) => (is_safe_to_copy(ct.val) <=> Lower(b[4]))

\* The type code of a parsed record has four letters, the last lowercase,
\* and is safe to copy.
FlagsWitness ==
    /\ pc = "typed"
    /\ src = "parsed"
    /\ ct.kind = "ok"
    /\ \A i \in 1..4 : Letter(bytes(ct.val)[i])
    /\ Lower(bytes(ct.val)[4])
    /\ is_safe_to_copy(ct.val)

\* C8: length() is the number of bytes of the payload, whatever its size.
LengthIsPayloadSize ==
    pc = "sized" => len32 = dlen

\* C9 as stated: the serialization of the record parsed from an accepted
\* buffer is that buffer.
ReserializeIdentity ==
    pc = "done" => out = buffer

\* C9 amended: it has the buffer's size, type and payload bytes, and in the
\* length field and in the checksum field the buffer's 4 bytes or their
\* reverse; it is the buffer exactly when the buffer holds both values
\* big-endian.
ReserializeCanonical ==
    pc = "done"
    => LET n == Len(buffer)
       IN  /\ Len(out) = n
           /\ \A i \in 5..(n - 4) : out[i] = buffer[i]
           /\ ReadBE(out, 0) \in {ReadBE(buffer, 0), ReadLE(buffer, 0)}
           /\ ReadBE(out, n - 4)
                  \in {ReadBE(buffer, n - 4), ReadLE(buffer, n - 4)}
           /\ out = buffer <=> (/\ ReadBE(buffer, 0) = PayloadLen32(buffer)
                                /\ ReadBE(buffer, n - 4) = crc(res.val))

\* A buffer with a field in the other byte order has been accepted, and
\* serializing the parsed record gives other bytes.
ReserializeWitness ==
    /\ pc = "done"
    /\ via = "swap"
    /\ out # buffer

\* C10: a buffer of at least 12 bytes is accepted exactly when its payload
\* size is a reading of the length field and the checksum of type and
\* payload is a reading of the checksum field; the length is tested first,
\* the type bytes are not tested, and the record holds bytes 4..8 and the
\* payload.
ParseAcceptance ==
    (pc = "parsed" /\ Len(buffer) >= 12)
    => LET n == Len(buffer)
           typ == <<buffer[5], buffer[6], buffer[7], buffer[8]>>
           payload == [i \in 1..(n - 12) |-> buffer[8 + i]]
       IN  IF PayloadLen32(buffer)
                  \notin {ReadBE(buffer, 0), ReadLE(buffer, 0)}
           THEN res = LengthError
           ELSE IF checksum(typ \o payload)
                       \notin {ReadBE(buffer, n - 4), ReadLE(buffer, n - 4)}
           THEN res = CrcError
           ELSE /\ res.kind = "ok"
                /\ bytes(res.val.chunk_type) = typ
                /\ res.val.data = payload

\* A buffer whose type bytes are no letters has been accepted.
ParseAcceptanceWitness ==
    /\ pc = "parsed"
    /\ Len(buffer) >= 13
    /\ res.kind = "ok"
    /\ ~Letter(buffer[5])
====
